---------------------------- MODULE Spec2Model ----------------------------
(***************************************************************************)
(* The C boundary of the wasmer runtime (lib/runtime-c-api/src/instance.rs)*)
(* as a state machine: a host instantiates modules, calls exports, takes   *)
(* export snapshots and destroys instances through raw handles.            *)
(*                                                                         *)
(* Every handler is a pure operator that returns the outcome of one call   *)
(* (status, the ordered events of the call, what it wrote to the caller's  *)
(* output parameters); the action of the handler applies that outcome to   *)
(* the heap and to the error channel.  The build modelled is the one with  *)
(* feature "metering" on, the only build in which                          *)
(* wasmer_instantiate_with_options exists.                                 *)
(***************************************************************************)
EXTENDS Integers, Sequences, FiniteSets, TLC

VARIABLES
    heap,        \* Box allocations: address -> free slot, Instance or NamedExports
    last_error,  \* the error channel: the message of the most recent update_last_error
    last,        \* the call that just returned: its arguments and its outcome
    process      \* "running", or how a panic inside an extern "C" fn ended it

vars == <<heap, last_error, last, process>>

-----------------------------------------------------------------------------
(* Bounds of the model *)

\* number of heap addresses Box::new can hand out
MaxBoxes == 2
\* largest results_len a caller passes to wasmer_instance_call
MaxResultsLen == 1
\* longest import list passed to wasmer_instantiate
MaxImports == 2
\* how many times a compilation invokes the middleware chain generator
MaxChainCalls == 3

-----------------------------------------------------------------------------
(* Pointers, text and messages *)

NULL == 0
Addrs == 1..MaxBoxes

Msg(text, about) == [text |-> text, about |-> about]
NoMsg == Msg("", <<>>)

\* UTF-8 text crosses the boundary as bytes
TxtEnv == <<101, 110, 118>>
TxtAux == <<97, 117, 120>>
TxtF == <<102>>
TxtG == <<103>>
TxtAccent == <<195, 169>>
TxtTruncated == <<195>>
TxtInvalid == <<255>>

Continuation(b) == b >= 128 /\ b <= 191

\* width of the character that starts with this byte, 0 for an invalid start
utf8_char_width(b) ==
    IF b < 128 THEN 1
    ELSE IF b >= 194 /\ b <= 223 THEN 2
    ELSE IF b >= 224 /\ b <= 239 THEN 3
    ELSE IF b >= 240 /\ b <= 244 THEN 4
    ELSE 0

RECURSIVE run_utf8_validation(_, _)
run_utf8_validation(v, i) ==
    IF i > Len(v) THEN TRUE
    ELSE LET first == v[i]
             w == utf8_char_width(first)
             has(k) == i + k <= Len(v)
         IN  CASE w = 1 -> run_utf8_validation(v, i + 1)
               [] w = 2 -> /\ has(1) /\ Continuation(v[i + 1])
                           /\ run_utf8_validation(v, i + 2)
               [] w = 3 -> /\ has(2)
                           /\ \/ first = 224 /\ v[i + 1] >= 160 /\ v[i + 1] <= 191
                              \/ first >= 225 /\ first <= 236 /\ Continuation(v[i + 1])
                              \/ first = 237 /\ v[i + 1] >= 128 /\ v[i + 1] <= 159
                              \/ first >= 238 /\ Continuation(v[i + 1])
                           /\ Continuation(v[i + 2])
                           /\ run_utf8_validation(v, i + 3)
               [] w = 4 -> /\ has(3)
                           /\ \/ first = 240 /\ v[i + 1] >= 144 /\ v[i + 1] <= 191
                              \/ first >= 241 /\ first <= 243 /\ Continuation(v[i + 1])
                              \/ first = 244 /\ v[i + 1] >= 128 /\ v[i + 1] <= 143
                           /\ Continuation(v[i + 2]) /\ Continuation(v[i + 3])
                           /\ run_utf8_validation(v, i + 4)
               [] OTHER -> FALSE

\* std::str::from_utf8(bytes).is_ok(); the str, when Ok, is the same bytes
from_utf8_ok(bytes) == run_utf8_validation(bytes, 1)


-----------------------------------------------------------------------------
(* What the host passes in *)

\* a wasmer_import_t: two byte arrays, the kind tag and the pointer of the union
Import(m, n, tag, value) ==
    [module_name |-> m, import_name |-> n, tag |-> tag, value |-> value]

ImportKinds == {"WASM_FUNCTION", "WASM_MEMORY", "WASM_GLOBAL", "WASM_TABLE"}

\* wasm_bytes / wasm_bytes_len; content is what the buffer parses to
Bytes(is_null, len, content) == [is_null |-> is_null, len |-> len, content |-> content]
BytesNull == Bytes(TRUE, 0, "malformed")
BytesNullLen == Bytes(TRUE, 8, "malformed")
BytesEmpty == Bytes(FALSE, 0, "malformed")
BytesMalformed == Bytes(FALSE, 8, "malformed")
BytesBackend == Bytes(FALSE, 8, "backend_error")
BytesGood == Bytes(FALSE, 8, "good")
BytesImporter == Bytes(FALSE, 8, "importer")
AllBytes == {BytesNull, BytesNullLen, BytesEmpty, BytesMalformed, BytesBackend,
             BytesGood, BytesImporter}

\* CompilationOptions
Options(gas, locals, trace, meter, brk) ==
    [gas_limit |-> gas, unmetered_locals |-> locals, opcode_trace |-> trace,
     metering |-> meter, runtime_breakpoints |-> brk]
GasLimits == {5, 9}
UnmeteredLocals == {1, 4}
AllOptions == {Options(g, l, t, m, b) : g \in GasLimits, l \in UnmeteredLocals,
                                        t \in BOOLEAN, m \in BOOLEAN, b \in BOOLEAN}

\* wasmer_value_t and the runtime's Value
WireValue(tag, v) == [tag |-> tag, value |-> v]
Uninit == WireValue("UNINIT", 0)
Value(kind, x) == [kind |-> kind, x |-> x]

-----------------------------------------------------------------------------
(* The collaborators behind the boundary: the runtime's modules, instances,  *)
(* import objects and the error channel                                      *)

TxtAnswer == <<97>>
TxtNop == <<110>>
TxtPair == <<112>>
TxtFail == <<102>>
TxtVec == <<118>>
TxtRun == <<114>>
TxtMissing == <<109>>

ExportDecl(name, nparams, traps, returns) ==
    [name |-> name, nparams |-> nparams, traps |-> traps, returns |-> returns]

\* the exports a module declares, in declaration order
ModuleExports(module) ==
    IF module = "good"
    THEN << ExportDecl(TxtAnswer, 0, FALSE, <<Value("I32", 42)>>),
            ExportDecl(TxtNop, 0, FALSE, <<>>),
            ExportDecl(TxtPair, 0, FALSE, <<Value("I64", 7), Value("F32", 2)>>),
            ExportDecl(TxtFail, 0, TRUE, <<>>),
            ExportDecl(TxtVec, 0, FALSE, <<Value("V128", 1)>>) >>
    ELSE << ExportDecl(TxtRun, 1, FALSE, <<Value("F64", 3)>>) >>

\* the imports a module declares
ModuleImports(module) == IF module = "importer" THEN {<<TxtEnv, TxtF>>} ELSE {}

MsgMalformed == Msg("validation error: malformed bytecode", <<>>)
MsgBackend == Msg("codegen error: backend could not compile", <<>>)
MsgUnresolved(imp) == Msg("link error: import not found", imp[1] \o <<46>> \o imp[2])

\* compile bytes (with the compiler's middleware chains): a module or a failure
compile(bytes) ==
    IF bytes.len = 0 \/ bytes.content = "malformed"
    THEN [ok |-> FALSE, error |-> MsgMalformed, module |-> "none"]
    ELSE IF bytes.content = "backend_error"
    THEN [ok |-> FALSE, error |-> MsgBackend, module |-> "none"]
    ELSE [ok |-> TRUE, error |-> NoMsg, module |-> bytes.content]

NoLimit == 0 - 1
\* the Ctx of an instance: the host's data pointer, null until the host sets one
NewCtx == [data |-> NULL]
\* a heap cell: a free slot, a boxed Instance or a boxed NamedExports
NewInstance(module) ==
    [kind |-> "Instance", module |-> module, points_limit |-> NoLimit, entries |-> <<>>,
     context |-> NewCtx]
NoInstance ==
    [kind |-> "Free", module |-> "none", points_limit |-> NoLimit, entries |-> <<>>,
     context |-> NewCtx]

Resolves(import_object, imp) ==
    /\ imp[1] \in DOMAIN import_object
    /\ imp[2] \in DOMAIN import_object[imp[1]]

\* instantiate a compiled module against an import object
module_instantiate(module, import_object) ==
    LET unresolved == {imp \in ModuleImports(module) : ~Resolves(import_object, imp)}
    IN  IF unresolved # {}
        THEN [ok |-> FALSE, error |-> MsgUnresolved(CHOOSE imp \in unresolved : TRUE),
              instance |-> NoInstance]
        ELSE [ok |-> TRUE, error |-> NoMsg, instance |-> NewInstance(module)]

\* wasmer_runtime::instantiate: compile, then instantiate
runtime_instantiate(bytes, import_object) ==
    LET c == compile(bytes)
    IN  IF c.ok THEN module_instantiate(c.module, import_object)
        ELSE [ok |-> FALSE, error |-> c.error, instance |-> NoInstance]

\* metering::set_points_limit
set_points_limit(instance, limit) == [instance EXCEPT !.points_limit = limit]

EmptyNamespace == <<>>
EmptyImportObject == <<>>
\* Namespace::insert: one binding per name, a later insert overwrites
Namespace_insert(namespace, name, export) == (name :> export) @@ namespace
\* ImportObject::register
ImportObject_register(import_object, name, namespace) ==
    (name :> namespace) @@ import_object

\* the host-managed default import object of wasmer_instantiate_with_options
GLOBAL_IMPORT_OBJECT ==
    ImportObject_register(EmptyImportObject, TxtEnv,
        Namespace_insert(EmptyNamespace, TxtG, [kind |-> "Function", ref |-> "host_g"]))


\* update_last_error: the channel holds the single most recent message
update_last_error(channel, msg) == msg

-----------------------------------------------------------------------------
(* The outcome of one call *)

\* nothing done yet: no status, no event, nothing written to an output parameter
Outcome0 ==
    [status |-> "NONE", events |-> <<>>, msg |-> NoMsg, stage_error |-> NoMsg,
     instance_out |-> NULL, new_instance |-> NoInstance,
     import_object |-> EmptyImportObject, chains |-> <<>>,
     results |-> <<>>, indexed |-> {}, written |-> {},
     exports_out |-> NULL, new_exports |-> <<>>, freed |-> NULL,
     ret |-> NULL, new_data |-> <<>>]

\* update_last_error(msg); return WASMER_ERROR
ReturnError(o, msg) ==
    [o EXCEPT !.status = "WASMER_ERROR", !.msg = msg,
              !.events = @ \o <<"update_last_error", "return">>]

-----------------------------------------------------------------------------
(* wasmer_instantiate *)

\* the match on import.tag: the binding is cloned, the resource is shared
export_of(import) ==
    CASE import.tag = "WASM_MEMORY" -> [kind |-> "Memory", ref |-> import.value]
      [] import.tag = "WASM_FUNCTION" -> [kind |-> "Function", ref |-> import.value]
      [] import.tag = "WASM_GLOBAL" -> [kind |-> "Global", ref |-> import.value]
      [] import.tag = "WASM_TABLE" -> [kind |-> "Table", ref |-> import.value]

\* mutant: a fresh Namespace for every entry, also when the module has one
entry_always_inserts(namespaces, module_name) ==
    (module_name :> EmptyNamespace) @@ namespaces

\* namespaces.entry(module_name).or_insert_with(Namespace::new)
entry_or_insert(namespaces, module_name) ==
    IF module_name \in DOMAIN namespaces THEN namespaces
    ELSE (module_name :> EmptyNamespace) @@ namespaces

\* the loop over the import list, in list order
RECURSIVE import_loop(_, _, _)
import_loop(imports, i, namespaces) ==
    IF i > Len(imports) THEN [ok |-> TRUE, msg |-> NoMsg, namespaces |-> namespaces]
    ELSE LET import == imports[i]
         IN  IF ~from_utf8_ok(import.module_name)
             THEN [ok |-> FALSE, msg |-> Msg("error converting module name to string", <<>>),
                   namespaces |-> namespaces]
             ELSE IF ~from_utf8_ok(import.import_name)
             THEN [ok |-> FALSE, msg |-> Msg("error converting import_name to string", <<>>),
                   namespaces |-> namespaces]
             ELSE LET with_entry == entry_or_insert(namespaces, import.module_name)
                      namespace == Namespace_insert(with_entry[import.module_name],
                                                    import.import_name, export_of(import))
                  IN  import_loop(imports, i + 1,
                                  [with_entry EXCEPT ![import.module_name] = namespace])

\* for (module_name, namespace) in namespaces: import_object.register(..)
RECURSIVE register_all(_, _)
register_all(namespaces, import_object) ==
    IF DOMAIN namespaces = {} THEN import_object
    ELSE LET m == CHOOSE k \in DOMAIN namespaces : TRUE
             rest == [k \in DOMAIN namespaces \ {m} |-> namespaces[k]]
         IN  register_all(rest, ImportObject_register(import_object, m, namespaces[m]))

\* if wasm_bytes.is_null() { update_last_error(..); return WASMER_ERROR }
bytes_null_return(o) == ReturnError(o, Msg("wasm bytes ptr is null", <<>>))

\* mutant: *instance is written before the result is matched
instantiate_result_writes_first(o, result, box) ==
    LET w == [o EXCEPT !.instance_out = box, !.events = @ \o <<"write_instance">>]
    IN  IF ~result.ok
        THEN ReturnError([w EXCEPT !.stage_error = result.error], result.error)
        ELSE [w EXCEPT !.status = "WASMER_OK", !.new_instance = result.instance,
                       !.events = @ \o <<"return">>]

\* the match on the result of wasmer_runtime::instantiate, and the write of *instance
instantiate_result(o, result, box) ==
    IF ~result.ok
    THEN ReturnError([o EXCEPT !.stage_error = result.error], result.error)
    ELSE [o EXCEPT !.status = "WASMER_OK", !.new_instance = result.instance,
                   !.instance_out = box,
                   !.events = @ \o <<"write_instance", "return">>]

\* box: the address Box::new returns for the new instance
wasmer_instantiate(wasm_bytes, imports, box) ==
    IF wasm_bytes.is_null THEN bytes_null_return(Outcome0)
    ELSE LET loop == import_loop(imports, 1, <<>>)
         IN  IF ~loop.ok THEN ReturnError(Outcome0, loop.msg)
             ELSE LET import_object == register_all(loop.namespaces, EmptyImportObject)
                      result == runtime_instantiate(wasm_bytes, import_object)
                      o == [Outcome0 EXCEPT !.import_object = import_object,
                                            !.events = <<"instantiate">>]
                  IN  instantiate_result(o, result, box)

-----------------------------------------------------------------------------
(* prepare_middleware_chain_generator, get_compiler and                      *)
(* wasmer_instantiate_with_options                                           *)

\* #[cfg(feature = "metering")]: the build that has wasmer_instantiate_with_options
FeatureMetering == TRUE

\* a middleware pass object; made_in is the generator invocation that built it
Pass(kind, made_in, arg) == [kind |-> kind, made_in |-> made_in, arg |-> arg]

MiddlewareChain_new == <<>>
chain_push(chain, pass) == Append(chain, pass)

\* mutant: one chain built outside the closure, every invocation pushes onto it
RECURSIVE chain_generator_shared_chain(_, _)
chain_generator_shared_chain(options, n) ==
    LET c0 == IF n = 1 THEN MiddlewareChain_new
              ELSE chain_generator_shared_chain(options, n - 1)
        c1 == IF options.metering /\ FeatureMetering
              THEN chain_push(c0, Pass("Metering", n, options.unmetered_locals)) ELSE c0
        c2 == IF options.runtime_breakpoints
              THEN chain_push(c1, Pass("RuntimeBreakpointHandler", n, 0)) ELSE c1
        c3 == IF options.opcode_trace
              THEN chain_push(c2, Pass("OpcodeTracer", n, 0)) ELSE c2
    IN  c3

\* the n-th invocation of the closure returned by prepare_middleware_chain_generator
chain_generator(options, n) ==
    LET c0 == MiddlewareChain_new
        c1 == IF options.metering /\ FeatureMetering
              THEN chain_push(c0, Pass("Metering", n, options.unmetered_locals)) ELSE c0
        c2 == IF options.runtime_breakpoints
              THEN chain_push(c1, Pass("RuntimeBreakpointHandler", n, 0)) ELSE c1
        c3 == IF options.opcode_trace
              THEN chain_push(c2, Pass("OpcodeTracer", n, 0)) ELSE c2
    IN  c3

\* compile_with(bytes, &get_compiler(generator)): the streaming compiler asks the
\* generator for a chain per compilation unit
compile_with(bytes, options) ==
    [result |-> compile(bytes),
     chains |-> [n \in 1..MaxChainCalls |-> chain_generator(options, n)]]

\* Err(_) => { update_last_error("compile error"); return WASMER_ERROR }
compile_error_return(o, error) ==
    ReturnError([o EXCEPT !.stage_error = error], Msg("compile error", <<>>))

\* Err(error) => { update_last_error(error); return WASMER_ERROR }
instantiation_error_return(o, error) ==
    ReturnError([o EXCEPT !.stage_error = error], error)

\* mutant: the handle is handed out without the gas limit
with_options_finish_without_limit(o, instance, options, box) ==
    [o EXCEPT !.status = "WASMER_OK", !.new_instance = instance,
              !.instance_out = box,
              !.events = @ \o <<"write_instance", "return">>]

\* set_points_limit(&mut new_instance, gas_limit); *instance = Box::into_raw(..)
with_options_finish(o, instance, options, box) ==
    [o EXCEPT !.status = "WASMER_OK",
              !.new_instance = set_points_limit(instance, options.gas_limit),
              !.instance_out = box,
              !.events = @ \o <<"set_points_limit", "write_instance", "return">>]

wasmer_instantiate_with_options(wasm_bytes, options, box) ==
    IF wasm_bytes.is_null THEN bytes_null_return(Outcome0)
    ELSE LET compilation == compile_with(wasm_bytes, options)
             o == [Outcome0 EXCEPT !.chains = compilation.chains,
                                   !.events = <<"compile_with">>]
         IN  IF ~compilation.result.ok
             THEN compile_error_return(o, compilation.result.error)
             ELSE LET result == module_instantiate(compilation.result.module,
                                                   GLOBAL_IMPORT_OBJECT)
                      o2 == [o EXCEPT !.import_object = GLOBAL_IMPORT_OBJECT,
                                      !.events = @ \o <<"instantiate">>]
                  IN  IF ~result.ok THEN instantiation_error_return(o2, result.error)
                      ELSE with_options_finish(o2, result.instance, options, box)

-----------------------------------------------------------------------------
(* wasmer_instance_call *)

\* a panic inside an extern "C" fn never returns a status: the process aborts, or
\* the panic unwinds into the C caller
PanicOutcomes == {"aborted", "unwound into the caller"}
Panic(o) == [o EXCEPT !.status = "PANIC", !.events = @ \o <<"panic">>]

\* wasmer_value_t -> Value (x.into()), by tag
value_into(w) ==
    CASE w.tag = "WASM_I32" -> Value("I32", w.value)
      [] w.tag = "WASM_I64" -> Value("I64", w.value)
      [] w.tag = "WASM_F32" -> Value("F32", w.value)
      [] w.tag = "WASM_F64" -> Value("F64", w.value)

\* the match on results_vec[0]: Value -> wasmer_value_t
value_to_wire(v) ==
    CASE v.kind = "I32" -> WireValue("WASM_I32", v.x)
      [] v.kind = "I64" -> WireValue("WASM_I64", v.x)
      [] v.kind = "F32" -> WireValue("WASM_F32", v.x)
      [] v.kind = "F64" -> WireValue("WASM_F64", v.x)

\* Instance::call: resolve the export by name, check the arguments, run it
instance_call(instance, name, params) ==
    LET decls == ModuleExports(instance.module)
        found == {i \in 1..Len(decls) : decls[i].name = name}
    IN  IF found = {}
        THEN [ok |-> FALSE, error |-> Msg("call error: export not found", name),
              values |-> <<>>]
        ELSE LET d == decls[CHOOSE i \in found : TRUE]
             IN  IF Len(params) # d.nparams
                 THEN [ok |-> FALSE,
                       error |-> Msg("call error: parameters do not match signature", name),
                       values |-> <<>>]
                 ELSE IF d.traps
                 THEN [ok |-> FALSE, error |-> Msg("runtime error: trap", name),
                       values |-> <<>>]
                 ELSE [ok |-> TRUE, error |-> NoMsg, values |-> d.returns]

\* Ok(results_vec) => { if !results_vec.is_empty() { .. results[0] = ret; } WASMER_OK }
call_result_ok(o, results_vec) ==
    IF results_vec = <<>> THEN [o EXCEPT !.status = "WASMER_OK"]
    ELSE IF results_vec[1].kind = "V128" THEN Panic(o)
    ELSE LET indexed == [o EXCEPT !.indexed = @ \cup {0}]
         IN  IF Len(o.results) = 0 THEN Panic(indexed)
             ELSE [indexed EXCEPT !.status = "WASMER_OK",
                                  !.results[1] = value_to_wire(results_vec[1]),
                                  !.written = @ \cup {0},
                                  !.events = @ \o <<"write_results">>]

\* mutant: the error of the call is dropped
call_result_err_silent(o, err) ==
    [o EXCEPT !.status = "WASMER_ERROR", !.stage_error = err]

\* Err(err) => { update_last_error(err); WASMER_ERROR }
call_result_err(o, err) ==
    [o EXCEPT !.status = "WASMER_ERROR", !.msg = err, !.stage_error = err,
              !.events = @ \o <<"update_last_error">>]

\* the code after the match: read the tracer's last location, return result
call_return(o) ==
    IF o.status = "PANIC" THEN o
    ELSE [o EXCEPT !.events = @ \o <<"get_opcodetracer_last_location", "return">>]

\* boxed: the Instance the handle points to (unused for a null handle)
wasmer_instance_call(instance, boxed, name_null, name, params_null, params, results_len) ==
    IF instance = NULL THEN ReturnError(Outcome0, Msg("instance ptr is null", <<>>))
    ELSE IF name_null THEN ReturnError(Outcome0, Msg("name ptr is null", <<>>))
    ELSE IF params_null THEN ReturnError(Outcome0, Msg("params ptr is null", <<>>))
    ELSE LET native == [i \in 1..Len(params) |-> value_into(params[i])]
         IN  IF ~from_utf8_ok(name) THEN Panic(Outcome0)
             ELSE LET o == [Outcome0 EXCEPT
                               !.results = [i \in 1..results_len |-> Uninit],
                               !.events = <<"reset_opcodetracer_last_location", "call">>]
                      result == instance_call(boxed, name, native)
                  IN  call_return(IF result.ok
                                  THEN call_result_ok(o, result.values)
                                  ELSE call_result_err(o, result.error))

-----------------------------------------------------------------------------
(* wasmer_instance_exports and wasmer_instance_destroy *)

NamedExport(name, export, instance) ==
    [name |-> name, export |-> export, instance |-> instance]

\* Instance::exports(): (name, binding) of every export, in declaration order
instance_exports(instance, boxed) ==
    LET decls == ModuleExports(boxed.module)
    IN  [i \in 1..Len(decls) |->
            [name |-> decls[i].name,
             export |-> [kind |-> "Function", owner |-> instance, index |-> i]]]

\* mutant: every entry goes to the front of the Vec
wasmer_instance_exports_reversed(instance, boxed, box) ==
    IF instance = NULL THEN [Outcome0 EXCEPT !.events = <<"return">>]
    ELSE LET exports == instance_exports(instance, boxed)
             n == Len(exports)
             exports_vec == [i \in 1..n |->
                                NamedExport(exports[n + 1 - i].name,
                                            exports[n + 1 - i].export, instance)]
         IN  [Outcome0 EXCEPT !.new_exports = exports_vec, !.exports_out = box,
                              !.events = <<"write_exports", "return">>]

\* box: the address Box::new returns for the NamedExports
wasmer_instance_exports(instance, boxed, box) ==
    IF instance = NULL THEN [Outcome0 EXCEPT !.events = <<"return">>]
    ELSE LET exports == instance_exports(instance, boxed)
             exports_vec == [i \in 1..Len(exports) |->
                                NamedExport(exports[i].name, exports[i].export, instance)]
         IN  [Outcome0 EXCEPT !.new_exports = exports_vec, !.exports_out = box,
                              !.events = <<"write_exports", "return">>]

\* mutant: the null test inverted, a live handle is never dropped
wasmer_instance_destroy_inverted(instance) ==
    [Outcome0 EXCEPT !.events = <<"return">>]

wasmer_instance_destroy(instance) ==
    IF instance # NULL
    THEN [Outcome0 EXCEPT !.freed = instance, !.events = <<"drop", "return">>]
    ELSE [Outcome0 EXCEPT !.events = <<"return">>]

-----------------------------------------------------------------------------
(* wasmer_instance_context_get, wasmer_instance_context_data_set and         *)
(* wasmer_instance_context_data_get                                          *)

\* instance.context() as *const Ctx: the Ctx lives inside the instance, at an
\* address of its own
ContextOf(instance) == MaxBoxes + instance
InstanceOfContext(ctx) == ctx - MaxBoxes

wasmer_instance_context_get(instance) ==
    IF instance = NULL THEN [Outcome0 EXCEPT !.ret = NULL, !.events = <<"return">>]
    ELSE [Outcome0 EXCEPT !.ret = ContextOf(instance), !.events = <<"return">>]

\* mutant: the pointer is never stored
wasmer_instance_context_data_set_dropped(instance, data_ptr) ==
    [Outcome0 EXCEPT !.events = <<"return">>]

\* instance.context_mut().data = data_ptr: the pointer is stored, not followed
wasmer_instance_context_data_set(instance, data_ptr) ==
    IF instance = NULL THEN [Outcome0 EXCEPT !.events = <<"return">>]
    ELSE [Outcome0 EXCEPT !.new_data = <<data_ptr>>,
                          !.events = <<"store_data", "return">>]

\* ctx_ref: the Ctx the pointer refers to (unused for a null pointer)
wasmer_instance_context_data_get(ctx, ctx_ref) ==
    IF ctx = NULL THEN [Outcome0 EXCEPT !.ret = NULL, !.events = <<"return">>]
    ELSE [Outcome0 EXCEPT !.ret = ctx_ref.data, !.events = <<"return">>]

-----------------------------------------------------------------------------
(* The host and the state machine *)

NoArgs ==
    [wasm_bytes |-> BytesNull, imports |-> <<>>, options |-> Options(0, 0, FALSE, FALSE, FALSE),
     instance |-> NULL, name_null |-> FALSE, name |-> <<>>, params_null |-> FALSE,
     params |-> <<>>, results_len |-> 0, data_ptr |-> NULL, ctx |-> NULL]

Call0 == [op |-> "none", args |-> NoArgs, out |-> Outcome0]

Free == {a \in Addrs : heap[a].kind = "Free"}
Live == {a \in Addrs : heap[a].kind = "Instance"}

\* what every call does with its outcome: the error channel, the process
Apply(op, args, o) ==
    /\ last' = [op |-> op, args |-> args, out |-> o]
    /\ last_error' = IF o.msg # NoMsg THEN update_last_error(last_error, o.msg)
                     ELSE last_error
    /\ process' \in IF o.status = "PANIC" THEN PanicOutcomes ELSE {process}

Init ==
    /\ heap = [a \in Addrs |-> NoInstance]
    /\ last_error = NoMsg
    /\ last = Call0
    /\ process = "running"

\* Boxes: the addresses Box::new may return for the new instance
Instantiate(BytesSet, Lists, Boxes) ==
    /\ process = "running"
    /\ \E wasm_bytes \in BytesSet, imports \in Lists, box \in Boxes :
         LET o == wasmer_instantiate(wasm_bytes, imports, box)
         IN  /\ heap' = IF o.status = "WASMER_OK"
                        THEN [heap EXCEPT ![box] = o.new_instance] ELSE heap
             /\ Apply("wasmer_instantiate",
                      [NoArgs EXCEPT !.wasm_bytes = wasm_bytes, !.imports = imports], o)

InstantiateWithOptions(BytesSet, OptionsSet, Boxes) ==
    /\ process = "running"
    /\ FeatureMetering
    /\ \E wasm_bytes \in BytesSet, options \in OptionsSet, box \in Boxes :
         LET o == wasmer_instantiate_with_options(wasm_bytes, options, box)
         IN  /\ heap' = IF o.status = "WASMER_OK"
                        THEN [heap EXCEPT ![box] = o.new_instance] ELSE heap
             /\ Apply("wasmer_instantiate_with_options",
                      [NoArgs EXCEPT !.wasm_bytes = wasm_bytes, !.options = options], o)

\* the host passes null or a handle it got from an instantiate and has not destroyed
InstanceCall(Names, Params) ==
    /\ process = "running"
    /\ \E instance \in Live \cup {NULL}, name_null \in BOOLEAN, params_null \in BOOLEAN,
          results_len \in 0..MaxResultsLen :
         \E name \in IF name_null THEN {<<>>} ELSE Names,
            params \in IF params_null THEN {<<>>} ELSE Params :
           LET boxed == IF instance = NULL THEN NoInstance ELSE heap[instance]
               o == wasmer_instance_call(instance, boxed, name_null, name, params_null,
                                         params, results_len)
           IN  /\ heap' = heap
               /\ Apply("wasmer_instance_call",
                        [NoArgs EXCEPT !.instance = instance, !.name_null = name_null,
                                       !.name = name, !.params_null = params_null,
                                       !.params = params, !.results_len = results_len], o)

InstanceExports ==
    /\ process = "running"
    /\ \E instance \in Live \cup {NULL}, box \in Free :
         LET boxed == IF instance = NULL THEN NoInstance ELSE heap[instance]
             o == wasmer_instance_exports(instance, boxed, box)
         IN  /\ heap' = IF o.exports_out # NULL
                        THEN [heap EXCEPT ![box] =
                                 [NoInstance EXCEPT !.kind = "NamedExports",
                                                    !.entries = o.new_exports]]
                        ELSE heap
             /\ Apply("wasmer_instance_exports", [NoArgs EXCEPT !.instance = instance], o)

InstanceDestroy ==
    /\ process = "running"
    /\ \E instance \in Live \cup {NULL} :
         LET o == wasmer_instance_destroy(instance)
         IN  /\ heap' = IF o.freed # NULL THEN [heap EXCEPT ![o.freed] = NoInstance]
                        ELSE heap
             /\ Apply("wasmer_instance_destroy", [NoArgs EXCEPT !.instance = instance], o)

InstanceContextGet ==
    /\ process = "running"
    /\ \E instance \in Live \cup {NULL} :
         LET o == wasmer_instance_context_get(instance)
         IN  /\ heap' = heap
             /\ Apply("wasmer_instance_context_get",
                      [NoArgs EXCEPT !.instance = instance], o)

\* Pointers: the data pointers the host hands over; what they point to is the host's
InstanceContextDataSet(Pointers) ==
    /\ process = "running"
    /\ \E instance \in Live \cup {NULL}, data_ptr \in Pointers :
         LET o == wasmer_instance_context_data_set(instance, data_ptr)
         IN  /\ heap' = IF o.new_data # <<>>
                        THEN [heap EXCEPT ![instance].context.data = o.new_data[1]]
                        ELSE heap
             /\ Apply("wasmer_instance_context_data_set",
                      [NoArgs EXCEPT !.instance = instance, !.data_ptr = data_ptr], o)

\* the host passes null or the context of an instance it has not destroyed
InstanceContextDataGet ==
    /\ process = "running"
    /\ \E ctx \in {ContextOf(a) : a \in Live} \cup {NULL} :
         LET ctx_ref == IF ctx = NULL THEN NewCtx
                        ELSE heap[InstanceOfContext(ctx)].context
             o == wasmer_instance_context_data_get(ctx, ctx_ref)
         IN  /\ heap' = heap
             /\ Apply("wasmer_instance_context_data_get", [NoArgs EXCEPT !.ctx = ctx], o)

-----------------------------------------------------------------------------
(* Spec: a host that holds one instance at a time and exercises every path   *)
(* of the two instantiate operations and of the call                         *)

ImportF == Import(TxtEnv, TxtF, "WASM_FUNCTION", "host_f")
HostImportLists ==
    { <<>>, <<ImportF>>,
      <<ImportF, Import(TxtInvalid, TxtG, "WASM_MEMORY", "mem")>>,
      <<Import(TxtEnv, TxtTruncated, "WASM_GLOBAL", "glob"), ImportF>> }
HostOptions ==
    { Options(5, 1, FALSE, FALSE, FALSE), Options(9, 4, TRUE, TRUE, TRUE) }
CallNames == {TxtAnswer, TxtNop, TxtPair, TxtFail, TxtVec, TxtRun, TxtMissing, TxtInvalid}
CallParams == {<<>>, <<WireValue("WASM_I32", 4)>>}

OneAtATime == IF Live = {} THEN Free ELSE {}

Next ==
    \/ Instantiate(AllBytes, HostImportLists, OneAtATime)
    \/ InstantiateWithOptions(AllBytes, HostOptions, OneAtATime)
    \/ InstanceCall(CallNames, CallParams)
    \/ InstanceDestroy

Spec == Init /\ [][Next]_vars

-----------------------------------------------------------------------------
(* SpecLifecycle: a host that fills the heap with instances and export       *)
(* snapshots and destroys instances in any order                             *)

Snapshots == {a \in Addrs : heap[a].kind = "NamedExports"}

NextLifecycle ==
    \/ Instantiate({BytesGood, BytesMalformed}, {<<>>}, Free)
    \/ InstantiateWithOptions({BytesGood, BytesImporter},
                              {Options(5, 1, FALSE, TRUE, FALSE)}, Free)
    \/ InstanceExports
    \/ InstanceDestroy

SpecLifecycle == Init /\ [][NextLifecycle]_vars

-----------------------------------------------------------------------------
(* SpecChain: prepare_middleware_chain_generator for every option record,    *)
(* and the compiler invoking the generator it returned again and again       *)

PrepareChainGenerator ==
    /\ \E options \in AllOptions :
         last' = [op |-> "prepare_middleware_chain_generator",
                  args |-> [NoArgs EXCEPT !.options = options], out |-> Outcome0]
    /\ UNCHANGED <<heap, last_error, process>>

InvokeChainGenerator ==
    /\ last.op \in {"prepare_middleware_chain_generator", "chain_generator"}
    /\ Len(last.out.chains) < MaxChainCalls
    /\ last' = [last EXCEPT
                  !.op = "chain_generator",
                  !.out.chains = Append(@, chain_generator(last.args.options, Len(@) + 1))]
    /\ UNCHANGED <<heap, last_error, process>>

NextChain == PrepareChainGenerator \/ InvokeChainGenerator

SpecChain == Init /\ [][NextChain]_vars

-----------------------------------------------------------------------------
(* SpecImports: wasmer_instantiate on every import list up to MaxImports     *)

ImportEntries ==
    {Import(m, n, b[1], b[2]) :
        m \in {TxtEnv, TxtAux}, n \in {TxtF, TxtAccent},
        b \in {<<"WASM_FUNCTION", "host_f">>, <<"WASM_MEMORY", "mem">>}}
ImportLists == UNION {[1..k -> ImportEntries] : k \in 0..MaxImports}

\* one instance at a time, at the lowest free address
FirstFree ==
    IF Live = {} /\ Free # {}
    THEN {CHOOSE a \in Free : \A b \in Free : a <= b} ELSE {}

NextImports == Instantiate({BytesGood, BytesImporter}, ImportLists, FirstFree)

SpecImports == Init /\ [][NextImports]_vars

-----------------------------------------------------------------------------
(* SpecExports: snapshots of instances of two modules, one with five exports *)
(* and one with a single export                                              *)

NextExports ==
    \/ Instantiate({BytesGood, BytesImporter}, {<<>>, <<ImportF>>}, Free)
    \/ InstanceExports
    \/ InstanceDestroy

SpecExports == Init /\ [][NextExports]_vars

-----------------------------------------------------------------------------
(* SpecContext: a host that sets and reads the data pointer of its instances *)
(* between calls, snapshots and destroys                                     *)

HostPointers == {NULL, 71, 72}

NextContext ==
    \/ Instantiate({BytesGood}, {<<>>}, Free)
    \/ InstanceContextDataSet(HostPointers)
    \/ InstanceContextGet
    \/ InstanceContextDataGet
    \/ InstanceCall({TxtAnswer}, {<<>>})
    \/ InstanceExports
    \/ InstanceDestroy

SpecContext == Init /\ [][NextContext]_vars

-----------------------------------------------------------------------------
(* What the claims talk about *)

Out == last.out
Args == last.args
StatusOps == {"wasmer_instantiate", "wasmer_instantiate_with_options",
              "wasmer_instance_call"}
InstantiateOps == {"wasmer_instantiate", "wasmer_instantiate_with_options"}

Has(events, e) == \E i \in 1..Len(events) : events[i] = e
\* every occurrence of e comes before every occurrence of f
Before(events, e, f) ==
    \A i, j \in 1..Len(events) : events[i] = e /\ events[j] = f => i < j

ResultsUntouched ==
    /\ Out.written = {}
    /\ \A i \in 1..Len(Out.results) : Out.results[i] = Uninit

\* the call got past its null checks and its name was text: the export was looked up
CallReachedExport ==
    /\ last.op = "wasmer_instance_call"
    /\ Args.instance # NULL /\ ~Args.name_null /\ ~Args.params_null
    /\ from_utf8_ok(Args.name)

\* what Instance::call answered for the arguments of the last call
ExportAnswer ==
    instance_call(heap[Args.instance], Args.name,
                  [i \in 1..Len(Args.params) |-> value_into(Args.params[i])])

Min(a, b) == IF a < b THEN a ELSE b

-----------------------------------------------------------------------------
(* C1 *)

\* C1: every return of WASMER_ERROR from wasmer_instantiate,
\* wasmer_instantiate_with_options and wasmer_instance_call comes after an
\* update_last_error of that same call, and the channel then holds that call's
\* message; no call that returns WASMER_OK has set an error.
C1_ErrorSetByFailingCall ==
    last.op \in StatusOps =>
        /\ Out.status = "WASMER_ERROR" =>
              /\ Has(Out.events, "update_last_error")
              /\ Before(Out.events, "update_last_error", "return")
              /\ Out.msg # NoMsg
              /\ last_error = Out.msg
        /\ Out.status = "WASMER_OK" =>
              /\ ~Has(Out.events, "update_last_error")
              /\ Out.msg = NoMsg

\* a trap inside an export, reported by wasmer_instance_call
C1_Witness ==
    /\ CallReachedExport
    /\ Out.status = "WASMER_ERROR"
    /\ last_error = Msg("runtime error: trap", TxtFail)

-----------------------------------------------------------------------------
(* C2 *)

\* C2: when one of the three operations returns WASMER_ERROR the caller's
\* instance slot is not written, no instance is created and no slot of the
\* results buffer is written; a call of a name the live instance does not export
\* returns WASMER_ERROR with the results untouched.
C2_ErrorLeavesOutputs ==
    /\ (last.op \in StatusOps /\ Out.status = "WASMER_ERROR") =>
          /\ Out.instance_out = NULL
          /\ ~Has(Out.events, "write_instance")
          /\ Out.new_instance = NoInstance
          /\ ~Has(Out.events, "write_results")
          /\ ResultsUntouched
    /\ (CallReachedExport
        /\ \A i \in 1..Len(ModuleExports(heap[Args.instance].module)) :
              ModuleExports(heap[Args.instance].module)[i].name # Args.name) =>
          /\ Out.status = "WASMER_ERROR"
          /\ ResultsUntouched

\* a missing export called on a live instance with a result slot to write to
C2_Witness ==
    /\ CallReachedExport
    /\ Args.name = TxtMissing
    /\ Args.results_len >= 1
    /\ Out.status = "WASMER_ERROR"

-----------------------------------------------------------------------------
(* C4 *)

\* C4: when the export called by wasmer_instance_call succeeds, for every
\* results_len and every number of returned values: nothing is written when no
\* value is returned, at most min(returned values, results_len) slots are
\* written, and no slot at an index >= results_len is written or indexed.
C4_ResultsWithinLength ==
    (CallReachedExport /\ ExportAnswer.ok) =>
        /\ ExportAnswer.values = <<>> => Out.written = {}
        /\ Cardinality(Out.written) <= Min(Len(ExportAnswer.values), Args.results_len)
        /\ \A i \in Out.written \cup Out.indexed : i < Args.results_len

-----------------------------------------------------------------------------
(* C5 *)

LayerArgumentMessages == {Msg("wasm bytes ptr is null", <<>>)}

\* C5: wasmer_instantiate and wasmer_instantiate_with_options answer a null byte
\* pointer and a zero-length byte buffer alike: WASMER_ERROR, an invalid-argument
\* message of this layer, and the bytes never reach compilation or instantiation.
C5_NullOrEmptyBytesRejected ==
    (last.op \in InstantiateOps /\ (Args.wasm_bytes.is_null \/ Args.wasm_bytes.len = 0)) =>
        /\ Out.status = "WASMER_ERROR"
        /\ Out.msg \in LayerArgumentMessages
        /\ ~Has(Out.events, "instantiate")
        /\ ~Has(Out.events, "compile_with")

-----------------------------------------------------------------------------
(* C6 *)

\* some text input of the last call is not valid UTF-8
InvalidTextPassed ==
    \/ /\ last.op = "wasmer_instantiate"
       /\ \E i \in 1..Len(Args.imports) :
             \/ ~from_utf8_ok(Args.imports[i].module_name)
             \/ ~from_utf8_ok(Args.imports[i].import_name)
    \/ /\ last.op = "wasmer_instance_call"
       /\ ~Args.name_null
       /\ ~from_utf8_ok(Args.name)

\* C6: a module name, import name or export name that is not valid UTF-8 makes
\* the operation return WASMER_ERROR with a message in the error channel: no
\* instance is created, no export is invoked, the process is not aborted.
C6_InvalidTextIsAnError ==
    InvalidTextPassed =>
        /\ Out.status = "WASMER_ERROR"
        /\ Out.msg # NoMsg /\ last_error = Out.msg
        /\ Out.new_instance = NoInstance
        /\ ~Has(Out.events, "instantiate")
        /\ ~Has(Out.events, "call")
        /\ process = "running"

-----------------------------------------------------------------------------
(* C9 *)

\* compilation and instantiation against the global import object both succeed
StagesSucceed(bytes) ==
    /\ compile(bytes).ok
    /\ module_instantiate(compile(bytes).module, GLOBAL_IMPORT_OBJECT).ok

\* C9: wasmer_instantiate_with_options applies gas_limit to the new instance if
\* and only if compilation and instantiation both succeeded, and before the
\* handle is written; when a stage fails no budget is set, no handle is written
\* and WASMER_ERROR is returned.
C9_GasLimitOnSuccessOnly ==
    (last.op = "wasmer_instantiate_with_options" /\ ~Args.wasm_bytes.is_null) =>
        /\ Has(Out.events, "set_points_limit") <=> StagesSucceed(Args.wasm_bytes)
        /\ StagesSucceed(Args.wasm_bytes) =>
              /\ Out.status = "WASMER_OK"
              /\ Has(Out.events, "write_instance")
              /\ Before(Out.events, "set_points_limit", "write_instance")
              /\ Out.instance_out \in Addrs
              /\ heap[Out.instance_out].kind = "Instance"
              /\ heap[Out.instance_out].points_limit = Args.options.gas_limit
        /\ ~StagesSucceed(Args.wasm_bytes) =>
              /\ Out.status = "WASMER_ERROR"
              /\ Out.new_instance = NoInstance
              /\ Out.instance_out = NULL
              /\ ~Has(Out.events, "write_instance")

\* an instance created with a gas limit of 9
C9_Witness ==
    /\ last.op = "wasmer_instantiate_with_options"
    /\ Out.status = "WASMER_OK"
    /\ Args.options.gas_limit = 9
    /\ heap[Out.instance_out].points_limit = 9

-----------------------------------------------------------------------------
(* C10 *)

\* C10: when compilation or instantiation fails inside wasmer_instantiate or
\* wasmer_instantiate_with_options, the error channel holds the failure of that
\* stage unchanged, so different stage failures leave different messages.
C10_StageFailureVerbatim ==
    (last.op \in InstantiateOps /\ Out.stage_error # NoMsg) =>
        /\ Out.status = "WASMER_ERROR"
        /\ last_error = Out.stage_error

-----------------------------------------------------------------------------
(* C3 *)

PassOrder == <<"Metering", "RuntimeBreakpointHandler", "OpcodeTracer">>
Selected(options, kind) ==
    \/ kind = "Metering" /\ options.metering
    \/ kind = "RuntimeBreakpointHandler" /\ options.runtime_breakpoints
    \/ kind = "OpcodeTracer" /\ options.opcode_trace
SelectedPasses(options) == SelectSeq(PassOrder, LAMBDA k : Selected(options, k))

-----------------------------------------------------------------------------
(* C7 *)

\* the entries of the list for module m, and the last one for (m, n)
EntriesOf(list, m) == {i \in 1..Len(list) : list[i].module_name = m}
LastEntry(list, m, n) ==
    CHOOSE i \in EntriesOf(list, m) :
        /\ list[i].import_name = n
        /\ \A j \in EntriesOf(list, m) : list[j].import_name = n => j <= i

\* C7: the import object wasmer_instantiate passes to instantiation has one
\* namespace per distinct module name of the list, and each namespace maps
\* every import name of that module to the binding of the last list entry with
\* that module name and import name.
C7_ImportObjectGroupsLastWins ==
    (last.op = "wasmer_instantiate" /\ Has(Out.events, "instantiate")) =>
        LET list == Args.imports
            io == Out.import_object
        IN  /\ DOMAIN io = {list[i].module_name : i \in 1..Len(list)}
            /\ \A m \in DOMAIN io :
                  /\ DOMAIN io[m] = {list[i].import_name : i \in EntriesOf(list, m)}
                  /\ \A n \in DOMAIN io[m] :
                        io[m][n] = [kind |-> CASE list[LastEntry(list, m, n)].tag = "WASM_MEMORY" -> "Memory"
                                              [] list[LastEntry(list, m, n)].tag = "WASM_FUNCTION" -> "Function"
                                              [] list[LastEntry(list, m, n)].tag = "WASM_GLOBAL" -> "Global"
                                              [] list[LastEntry(list, m, n)].tag = "WASM_TABLE" -> "Table",
                                    ref |-> list[LastEntry(list, m, n)].value]

\* env.f bound twice, to a memory and then to a function: the function wins
C7_Witness ==
    /\ last.op = "wasmer_instantiate"
    /\ Out.status = "WASMER_OK"
    /\ Args.imports = <<Import(TxtEnv, TxtF, "WASM_MEMORY", "mem"),
                        Import(TxtEnv, TxtF, "WASM_FUNCTION", "host_f")>>
    /\ Out.import_object[TxtEnv][TxtF] = [kind |-> "Function", ref |-> "host_f"]

-----------------------------------------------------------------------------
(* C8 *)

LifecycleStep ==
    /\ \A a \in Addrs :
          /\ (a \notin Live /\ a \in Live') =>
                /\ last'.op \in InstantiateOps
                /\ last'.out.status = "WASMER_OK"
                /\ last'.out.instance_out = a
          /\ (a \in Live /\ a \notin Live') =>
                /\ last'.op = "wasmer_instance_destroy"
                /\ last'.args.instance = a
          /\ a \in Snapshots => heap'[a] = heap[a]
    /\ (last'.op \in InstantiateOps /\ last'.out.status = "WASMER_OK") =>
          /\ last'.out.instance_out \notin Live
          /\ last'.out.instance_out \in Live'
    /\ last'.op = "wasmer_instance_destroy" =>
          IF last'.args.instance = NULL
          THEN heap' = heap /\ last_error' = last_error
          ELSE /\ last'.args.instance \in Live
               /\ last'.args.instance \notin Live'
               /\ \A a \in Addrs \ {last'.args.instance} : heap'[a] = heap[a]
    /\ last'.op = "wasmer_instance_exports" => Live' = Live

\* C8: an instance becomes live only by the successful instantiate that returned
\* its handle and stops being live only by wasmer_instance_destroy on that
\* handle; destroy of null changes nothing; destroy of a live handle releases
\* the instance whatever snapshots refer to it, and releases no snapshot.
C8_LiveFromInstantiateToDestroy == [][LifecycleStep]_vars

\* a snapshot that outlives the instance it was taken from
C8_Witness ==
    /\ last.op = "wasmer_instance_destroy"
    /\ Args.instance # NULL
    /\ Args.instance \notin Live
    /\ \E s \in Snapshots :
          /\ Len(heap[s].entries) > 0
          /\ heap[s].entries[1].instance = Args.instance

-----------------------------------------------------------------------------
(* C11 *)

ExportsStep ==
    last'.op = "wasmer_instance_exports" =>
        LET instance == last'.args.instance
            o == last'.out
        IN  IF instance = NULL
            THEN /\ o.exports_out = NULL
                 /\ ~Has(o.events, "write_exports")
                 /\ heap' = heap
            ELSE /\ instance \in Live
                 /\ o.exports_out \in Free
                 /\ heap'[o.exports_out].kind = "NamedExports"
                 /\ LET entries == heap'[o.exports_out].entries
                        decls == ModuleExports(heap[instance].module)
                    IN  /\ Len(entries) = Len(decls)
                        /\ \A i \in 1..Len(decls) :
                              /\ entries[i].name = decls[i].name
                              /\ entries[i].export.owner = instance
                              /\ entries[i].export.index = i
                              /\ entries[i].instance = instance
                 /\ \A a \in Addrs \ {o.exports_out} : heap'[a] = heap[a]

\* C11: for a live instance wasmer_instance_exports writes a snapshot with one
\* NamedExport per export of the instance, in declaration order, each with the
\* export's name, a binding that refers to the instance's own export and the
\* handle of this instance; the instance and every other allocation are left as
\* they were; for a null instance the output slot is not written.
C11_SnapshotMirrorsExports == [][ExportsStep]_vars

\* a snapshot of the five exports of an instance, the third one named "p"
C11_Witness ==
    /\ last.op = "wasmer_instance_exports"
    /\ Args.instance \in Live
    /\ Out.exports_out \in Snapshots
    /\ Len(heap[Out.exports_out].entries) = 5
    /\ heap[Out.exports_out].entries[3] =
          NamedExport(TxtPair, [kind |-> "Function", owner |-> Args.instance, index |-> 3],
                      Args.instance)

-----------------------------------------------------------------------------
(* C12 *)

\* wasmer_instance_context_data_get(wasmer_instance_context_get(instance)) on heap h
ContextData(h, instance) ==
    LET ctx == wasmer_instance_context_get(instance).ret
        ctx_ref == IF ctx = NULL THEN NewCtx ELSE h[InstanceOfContext(ctx)].context
    IN  wasmer_instance_context_data_get(ctx, ctx_ref).ret

DataSetOn(a) ==
    /\ last'.op = "wasmer_instance_context_data_set"
    /\ last'.args.instance = a

ContextStep ==
    /\ \A a \in Live \cap Live' :
          IF DataSetOn(a)
          THEN ContextData(heap', a) = last'.args.data_ptr
          ELSE ContextData(heap', a) = ContextData(heap, a)
    /\ ~Has(last'.out.events, "deref_data") /\ ~Has(last'.out.events, "free_data")
    /\ last'.op = "wasmer_instance_context_data_set" =>
          /\ last'.args.instance = NULL => heap' = heap
          /\ \A a \in Addrs \ {last'.args.instance} : heap'[a] = heap[a]
          /\ Live' = Live
          /\ last_error' = last_error
    /\ last'.op = "wasmer_instance_context_get" =>
          /\ last'.args.instance = NULL => last'.out.ret = NULL
          /\ heap' = heap
    /\ last'.op = "wasmer_instance_context_data_get" =>
          /\ last'.args.ctx = NULL => last'.out.ret = NULL
          /\ last'.args.ctx # NULL =>
                last'.out.ret = ContextData(heap, InstanceOfContext(last'.args.ctx))
          /\ heap' = heap

\* C12: for a live instance, data_get(context_get(instance)) gives the pointer of
\* the most recent data_set on it: a data_set makes it that pointer, every other
\* operation (calls, snapshots, reads, operations on other handles) leaves it as
\* it was, and no operation follows or frees the pointer; data_set on a null
\* instance changes nothing, context_get of null and data_get of null give null.
C12_DataIsLastSet == [][ContextStep]_vars

\* the pointer 72 read back from an instance that has a snapshot taken of it
C12_Witness ==
    /\ last.op = "wasmer_instance_context_data_get"
    /\ Args.ctx # NULL
    /\ InstanceOfContext(Args.ctx) \in Live
    /\ Out.ret = 72
    /\ ContextData(heap, InstanceOfContext(Args.ctx)) = 72
    /\ \E s \in Snapshots : heap[s].entries[1].instance = InstanceOfContext(Args.ctx)

=============================================================================
